---- MODULE Spec2Model ----
(***************************************************************************)
(* Model of the Rete inference engine of src/rete_engine/retecore.py and   *)
(* of the conflict-resolution strategies of                                *)
(* src/rete_engine/conflictResolution.py.                                  *)
(*                                                                         *)
(* Objects are kept in arenas: a WME object is an index into wmes, an      *)
(* alpha memory an index into network.alpha_memories, a join node an index *)
(* into network.joins, a beta memory an index into network.betas and a     *)
(* production node an index into network.productions.  The reference None  *)
(* is the index 0.  A Token is represented by the list Token.get_wmes      *)
(* returns for it (its path of WME objects); the parentless token that     *)
(* JoinNode.right_activation creates at the root has the empty path.       *)
(***************************************************************************)
EXTENDS Integers, Sequences, FiniteSets, TLC

\* ------------------------------------------------------------------ bounds
MaxWmes == 3
MaxProds == 2
MaxCycles == 2
\* weights, in tenths, above which no further feedback is given
MaxWeight == 15

\* ------------------------------------------------------------ value types
None == 0

\* the None that select returns, among agenda items <<production node, token>>
NoItem == <<>>

VarNames == {"?person", "?name", "?age", "?min_age", "?x", "?y", "?z", "?v", "?w"}

\* isinstance(x, str) and x.startswith('?')
IsVar(x) == x \in VarNames

Condition(i, a, v) == [identifier |-> i, attribute |-> a, value |-> v]

Production(n, cs, as) == [name |-> n, conditions |-> cs, actions |-> as]

\* float('inf'), the default of getattr(production, 'goal_distance', ...)
Infinity == 1000

\* a production whose caller has set the attribute goal_distance
WithGoalDistance(production, d) == production @@ [goal_distance |-> d]

WME(i, a, v) ==
    [identifier |-> i, attribute |-> a, value |-> v,
     tokens |-> <<>>, alpha_memories |-> <<>>]

\* WME.__eq__
WmeEq(a, b) ==
    /\ a.identifier = b.identifier
    /\ a.attribute = b.attribute
    /\ a.value = b.value

AlphaMemory(ts) == [tests |-> ts, items |-> <<>>, successors |-> <<>>]

BetaMemory(p) == [parent |-> p, items |-> <<>>, children |-> <<>>]

JoinNode(p, am, ts) ==
    [parent |-> p, alpha_memory |-> am, tests |-> ts, beta_memory |-> None]

ProductionNode(p, prod) == [parent |-> p, production |-> prod, items |-> <<>>]

\* Token.__init__ together with Token.get_wmes: the path of Token(parent, wme)
Token(parent_path, w) == Append(parent_path, w)

ReteNetwork ==
    [alpha_root |-> <<>>, alpha_memories |-> <<>>, joins |-> <<>>,
     betas |-> <<>>, beta_root |-> None, productions |-> <<>>]

\* ---------------------------------------------------------- list helpers
Contains(s, x) == \E i \in 1..Len(s) : s[i] = x

RemoveAt(s, i) == SubSeq(s, 1, i - 1) \o SubSeq(s, i + 1, Len(s))

\* index of the first WME of the list ids that is == to the object w, or 0
IndexOfWme(ws, ids, w) ==
    IF \E i \in 1..Len(ids) : WmeEq(ws[ids[i]], ws[w])
    THEN CHOOSE i \in 1..Len(ids) :
             /\ WmeEq(ws[ids[i]], ws[w])
             /\ \A k \in 1..(i - 1) : ~WmeEq(ws[ids[k]], ws[w])
    ELSE 0

\* ------------------------------------------------------- alpha network
get_alpha_tests(c) ==
    SelectSeq(<<<<"identifier", c.identifier>>,
                <<"attribute", c.attribute>>,
                <<"value", c.value>>>>,
              LAMBDA t : ~IsVar(t[2]))

\* a trie in which no node is found to hold a memory
MemoryAtNone(net, ts) == None

\* the alpha memory stored under 'memory' in the trie node reached by tests
MemoryAt(net, ts) ==
    IF \E m \in 1..Len(net.alpha_memories) : net.alpha_memories[m].tests = ts
    THEN CHOOSE m \in 1..Len(net.alpha_memories) : net.alpha_memories[m].tests = ts
    ELSE None

RECURSIVE AddTrieNodes(_, _, _)
AddTrieNodes(root, ts, k) ==
    IF k > Len(ts) THEN root
    ELSE AddTrieNodes(IF Contains(root, SubSeq(ts, 1, k)) THEN root
                      ELSE Append(root, SubSeq(ts, 1, k)),
                      ts, k + 1)

build_or_share_alpha_memory(net, c) ==
    LET ts == get_alpha_tests(c)
        n1 == [net EXCEPT !.alpha_root = AddTrieNodes(@, ts, 1)]
        m  == MemoryAt(net, ts)
    IN  IF m # None THEN [net |-> n1, am |-> m]
        ELSE [net |-> [n1 EXCEPT !.alpha_memories = Append(@, AlphaMemory(ts))],
              am  |-> Len(net.alpha_memories) + 1]

\* ---------------------------------------------------------- join tests
make_test(condition_number, field_of_earlier_wme, field_of_this_wme) ==
    <<condition_number, field_of_earlier_wme, field_of_this_wme>>

\* the closure returned by _make_test, applied to (token, wme)
ApplyTest(ws, t, path, w) ==
    IF Len(path) <= t[1] THEN FALSE
    ELSE ws[path[t[1] + 1]][t[2]] = ws[w][t[3]]

perform_join_tests(ws, tests, path, w) ==
    \A k \in 1..Len(tests) : ApplyTest(ws, tests[k], path, w)

RECURSIVE IdentifierTests(_, _, _)
IdentifierTests(var_name, earlier_conditions, i) ==
    IF i >= Len(earlier_conditions) THEN <<>>
    ELSE LET e == earlier_conditions[i + 1]
         IN  (IF e.identifier = var_name
              THEN <<make_test(i, "identifier", "identifier")>> ELSE <<>>)
             \o (IF e.attribute = var_name
                 THEN <<make_test(i, "attribute", "identifier")>> ELSE <<>>)
             \o (IF e.value = var_name
                 THEN <<make_test(i, "value", "identifier")>> ELSE <<>>)
             \o IdentifierTests(var_name, earlier_conditions, i + 1)

get_join_tests(parent, condition, earlier_conditions) ==
    IF parent = None THEN <<>>
    ELSE IF IsVar(condition.identifier)
         THEN IdentifierTests(condition.identifier, earlier_conditions, 0)
         ELSE <<>>

\* ------------------------------------------------------ beta network
RECURSIVE beta_store(_, _, _)
RECURSIVE activate_children(_, _, _)

\* ProductionNode.left_activation(token) as the beta memories call it
production_left_activation(net, p, token) ==
    [net EXCEPT !.productions[p].items = Append(@, token)]

\* BetaMemory.left_activation from the point where new_token is known
beta_store(net, b, new_token) ==
    activate_children([net EXCEPT !.betas[b].items = Append(@, new_token)],
                      net.betas[b].children, new_token)

activate_children(net, children, new_token) ==
    IF children = <<>> THEN net
    ELSE LET c == Head(children)
             n1 == IF c.kind = "beta"
                   THEN beta_store(net, c.id, new_token)
                   ELSE production_left_activation(net, c.id, new_token)
         IN  activate_children(n1, Tail(children), new_token)

\* BetaMemory.left_activation(token, wme) with a wme
beta_left_activation(net, b, token, w) == beta_store(net, b, Token(token, w))

RECURSIVE JoinParentTokens(_, _, _, _, _)
JoinParentTokens(net, ws, j, tokens, w) ==
    IF tokens = <<>> THEN net
    ELSE LET n1 == IF perform_join_tests(ws, net.joins[j].tests, Head(tokens), w)
                   THEN beta_left_activation(net, net.joins[j].beta_memory,
                                             Head(tokens), w)
                   ELSE net
         IN  JoinParentTokens(n1, ws, j, Tail(tokens), w)

\* JoinNode.right_activation; JoinNode.children is always [beta_memory]
right_activation(net, ws, j, w) ==
    IF net.joins[j].parent = None
    THEN beta_left_activation(net, net.joins[j].beta_memory, <<>>, w)
    ELSE JoinParentTokens(net, ws, j, net.betas[net.joins[j].parent].items, w)

RECURSIVE RightActivateAll(_, _, _, _)
RightActivateAll(net, ws, js, w) ==
    IF js = <<>> THEN net
    ELSE RightActivateAll(right_activation(net, ws, Head(js), w), ws, Tail(js), w)

\* AlphaMemory.activate_with on the heap H = [net, wmes]
activate_with(H, m, w) ==
    IF IndexOfWme(H.wmes, H.net.alpha_memories[m].items, w) # 0 THEN H
    ELSE LET n1 == [H.net EXCEPT !.alpha_memories[m].items = Append(@, w)]
             w1 == [H.wmes EXCEPT ![w].alpha_memories = Append(@, m)]
         IN  [net  |-> RightActivateAll(n1, w1, n1.alpha_memories[m].successors, w),
              wmes |-> w1]

\* a walk that follows the first key of a trie node only
TrieKeysFirstOnly(net, node) ==
    LET keys == SelectSeq(net.alpha_root,
                          LAMBDA p : /\ Len(p) = Len(node) + 1
                                     /\ SubSeq(p, 1, Len(node)) = node)
    IN  IF keys = <<>> THEN <<>> ELSE <<Head(keys)>>

\* the keys of the trie node reached by the tests `node`, in insertion order
TrieKeys(net, node) ==
    SelectSeq(net.alpha_root,
              LAMBDA p : /\ Len(p) = Len(node) + 1
                         /\ SubSeq(p, 1, Len(node)) = node)

RECURSIVE activate_alpha_memories(_, _, _)
RECURSIVE FollowKeys(_, _, _)

activate_alpha_memories(H, node, w) ==
    LET m  == MemoryAt(H.net, node)
        H1 == IF m # None THEN activate_with(H, m, w) ELSE H
    IN  FollowKeys(H1, TrieKeys(H.net, node), w)

FollowKeys(H, keys, w) ==
    IF keys = <<>> THEN H
    ELSE LET key == Head(keys)[Len(Head(keys))]
             H1  == IF H.wmes[w][key[1]] = key[2]
                    THEN activate_alpha_memories(H, Head(keys), w)
                    ELSE H
         IN  FollowKeys(H1, Tail(keys), w)

\* ReteNetwork.add_wme
network_add_wme(H, w) == activate_alpha_memories(H, <<>>, w)

\* ------------------------------------------------------ network building
RECURSIVE InitialRightActivation(_, _, _, _)
InitialRightActivation(net, ws, j, items) ==
    IF items = <<>> THEN net
    ELSE InitialRightActivation(right_activation(net, ws, j, Head(items)),
                                ws, j, Tail(items))

\* a child of the parent beta memory that is a JoinNode with this alpha
\* memory and these tests (the children lists only ever hold beta memories
\* and production nodes)
SharedJoin(net, parent, am, tests) ==
    LET cs == net.betas[parent].children
    IN  IF \E k \in 1..Len(cs) :
               /\ cs[k].kind = "join"
               /\ net.joins[cs[k].id].alpha_memory = am
               /\ net.joins[cs[k].id].tests = tests
        THEN CHOOSE k \in 1..Len(cs) :
               /\ cs[k].kind = "join"
               /\ net.joins[cs[k].id].alpha_memory = am
               /\ net.joins[cs[k].id].tests = tests
        ELSE 0

build_or_share_beta_memory(net, ws, parent, am, condition, earlier_conditions) ==
    LET tests == get_join_tests(parent, condition, earlier_conditions)
        shared == IF parent = None THEN 0 ELSE SharedJoin(net, parent, am, tests)
    IN  IF shared # 0
        THEN [net |-> net,
              beta |-> net.joins[net.betas[parent].children[shared].id].beta_memory]
        ELSE
        LET newb == Len(net.betas) + 1
            n1 == IF parent = None
                  THEN IF net.beta_root = None
                       THEN [net EXCEPT !.betas = Append(@, BetaMemory(None)),
                                        !.beta_root = newb]
                       ELSE net
                  ELSE [net EXCEPT
                          !.betas = Append([@ EXCEPT ![parent].children =
                                               Append(@, [kind |-> "beta", id |-> newb])],
                                           BetaMemory(parent))]
            beta_memory == IF parent = None THEN n1.beta_root ELSE newb
            j  == Len(n1.joins) + 1
            n2 == [n1 EXCEPT
                     !.joins = Append(@, [JoinNode(parent, am, tests)
                                            EXCEPT !.beta_memory = beta_memory]),
                     !.alpha_memories[am].successors = Append(@, j),
                     !.betas[beta_memory].parent = j]
        IN  [net |-> InitialRightActivation(n2, ws, j, n2.alpha_memories[am].items),
             beta |-> beta_memory]

RECURSIVE build_or_share_network_for_conditions(_, _, _, _, _)
build_or_share_network_for_conditions(net, ws, conditions, k, current_node) ==
    IF k > Len(conditions) THEN [net |-> net, beta |-> current_node]
    ELSE LET a == build_or_share_alpha_memory(net, conditions[k])
             b == build_or_share_beta_memory(a.net, ws, current_node, a.am,
                                             conditions[k], SubSeq(conditions, 1, k - 1))
         IN  build_or_share_network_for_conditions(b.net, ws, conditions, k + 1, b.beta)

\* ReteNetwork.add_production
network_add_production(net, ws, production) ==
    LET r == build_or_share_network_for_conditions(net, ws, production.conditions,
                                                   1, net.beta_root)
        p == Len(r.net.productions) + 1
    IN  [r.net EXCEPT
           !.productions = Append(@, ProductionNode(r.beta, production)),
           !.betas[r.beta].children = Append(@, [kind |-> "prod", id |-> p])]

\* --------------------------------------------------------- the engine
VARIABLES
    fixture,          \* which rules and facts the callers draw from
    working_memory,   \* InferenceEngine.working_memory: list of WME objects
    wmes,             \* every WME object constructed so far
    network,          \* InferenceEngine.network
    agenda,           \* InferenceEngine.agenda: list of <<production node, token>>
    strategy,         \* InferenceEngine.strategy
    selection,        \* what the last strategy.select returned, None or an item
    selected_from,    \* the agenda that select was given
    pc,               \* "idle", or "loop" inside InferenceEngine.run
    cycle,            \* run's local cycle
    max_cycles,       \* run's argument
    result,           \* what the last run returned, -1 before any return
    trace,            \* the action invocations of the current or last run
    executed,         \* the items the current or last run passed to execute
    raised,           \* the exception the last call raised, or "none"
    held_strategy     \* the strategy object the caller holds besides the engine's

vars == <<fixture, working_memory, wmes, network, agenda, strategy, selection,
          selected_from, pc, cycle, max_cycles, result, trace, executed, raised,
          held_strategy>>

Fixtures == {"S1", "S2", "S4"}

\* the rule of main()
RuleR1 ==
    Production("R1", <<Condition("?person", "name", "?name"),
                       Condition("?person", "age", "?age"),
                       Condition("legal", "min-age", "?min_age")>>, <<"record">>)

\* the rule of main() with an action that asserts a fact and one that
\* retracts a fact
RuleR1a ==
    Production("R1a", <<Condition("?person", "name", "?name"),
                        Condition("?person", "age", "?age"),
                        Condition("legal", "min-age", "?min_age")>>,
               <<"assert", "retract">>)

\* the rule of main() with an action that asserts a fact, one that raises
\* and one that only notes its call
RuleR1f ==
    Production("R1f", <<Condition("?person", "name", "?name"),
                        Condition("?person", "age", "?age"),
                        Condition("legal", "min-age", "?min_age")>>,
               <<"assert", "fail", "record">>)

RuleR2 ==
    Production("R2", <<Condition("?x", "parent", "?y"),
                       Condition("?y", "parent", "?z")>>, <<"record">>)

RuleP1 == Production("P1", <<Condition("?x", "f", "?v")>>, <<"record">>)

RuleP2 ==
    WithGoalDistance(Production("P2", <<Condition("?y", "f", "?w")>>, <<"record">>), 1)

\* a variable shared through the value field of the later condition
RuleR3 ==
    Production("R3", <<Condition("?x", "parent", "?y"),
                       Condition("?z", "parent", "?y")>>, <<"record">>)

\* a condition without constants
RuleA1 == Production("A1", <<Condition("?x", "?y", "?z")>>, <<"record">>)

\* conditions whose constant tests are on different fields
RuleA2 ==
    Production("A2", <<Condition("?x", "f", "?v"),
                       Condition("x", "?y", "?w")>>, <<"record">>)

Rules(fx) ==
    CASE fx = "S1" -> {RuleR1}
      [] fx = "S2" -> {RuleR2}
      [] fx = "S4" -> {RuleP1, RuleP2}
      [] fx = "S5" -> {RuleR3}
      [] fx = "S6" -> {RuleA1, RuleA2}
      [] fx = "S7" -> {RuleR1a}
      [] fx = "S8" -> {RuleP1, RuleP2}
      [] fx = "S9" -> {RuleR1f}

Facts(fx) ==
    CASE fx = "S1" -> {<<"person1", "name", "Alice">>, <<"person1", "age", "25">>,
                       <<"legal", "min-age", "18">>}
      [] fx = "S2" -> {<<"a", "parent", "b">>, <<"b", "parent", "c">>,
                       <<"b", "parent", "d">>}
      [] fx = "S4" -> {<<"x", "f", "1">>, <<"y", "f", "2">>}
      [] fx = "S5" -> {<<"a", "parent", "b">>, <<"c", "parent", "d">>}
      [] fx = "S6" -> {<<"x", "f", "1">>, <<"y", "g", "2">>}
      [] fx = "S7" -> {<<"person1", "name", "Alice">>, <<"person1", "age", "25">>,
                       <<"legal", "min-age", "18">>}
      [] fx = "S8" -> {<<"x", "f", "1">>}
      [] fx = "S9" -> {<<"person1", "name", "Alice">>, <<"person1", "age", "25">>,
                       <<"legal", "min-age", "18">>}

\* ------------------------------------------------------------ strategies
DefaultStrategy == [kind |-> "Default"]

LEXStrategy == [kind |-> "LEX"]

MEAStrategy == [kind |-> "MEA"]

\* weights are kept in tenths
GamblersBucketBrigade(learning_rate, initial_weight) ==
    [kind |-> "GBB", rule_weights |-> <<>>,
     learning_rate |-> learning_rate, initial_weight |-> initial_weight,
     last_fired_rule |-> None]

Strategies ==
    {DefaultStrategy, LEXStrategy, MEAStrategy, GamblersBucketBrigade(1, 10)}

\* what the previous call returned or logged is dropped when the next call
\* of the API starts; run's locals do not outlive it
NewCall ==
    /\ selection' = NoItem
    /\ selected_from' = <<>>
    /\ cycle' = 0
    /\ max_cycles' = 0
    /\ result' = -1
    /\ trace' = <<>>
    /\ executed' = <<>>

\* the state InferenceEngine.__init__ leaves, for a fixture and a strategy
\* argument
EngineState(fx, st) ==
    /\ fixture = fx
    /\ working_memory = <<>>
    /\ wmes = <<>>
    /\ network = ReteNetwork
    /\ agenda = <<>>
    /\ strategy = st
    /\ selection = NoItem
    /\ selected_from = <<>>
    /\ pc = "idle"
    /\ cycle = 0
    /\ max_cycles = 0
    /\ result = -1
    /\ trace = <<>>
    /\ executed = <<>>
    /\ raised = "none"

\* an engine and a caller that holds a DefaultStrategy() of its own
NewEngine(fx, st) == EngineState(fx, st) /\ held_strategy = DefaultStrategy

\* InferenceEngine(): strategy or DefaultStrategy()
Init == \E fx \in Fixtures : NewEngine(fx, DefaultStrategy)

\* InferenceEngine(strategy)
InitStrategy == \E fx \in {"S1", "S4"} : \E st \in Strategies : NewEngine(fx, st)

\* InferenceEngine.add_production
add_production(production) ==
    /\ pc = "idle"
    /\ Len(network.productions) < MaxProds
    /\ network' = network_add_production(network, wmes, production)
    /\ raised' = "none"
    /\ NewCall
    /\ UNCHANGED <<fixture, held_strategy, working_memory, wmes, agenda,
                   strategy, pc>>

\* InferenceEngine.add_wme on the engine state; the handle returned is the
\* index of the new object
engine_add_wme(wm, net, ws, identifier, attribute, value) ==
    LET w == Len(ws) + 1
        H == network_add_wme([net |-> net,
                              wmes |-> Append(ws, WME(identifier, attribute, value))],
                             w)
    IN  [wm |-> Append(wm, w), net |-> H.net, wmes |-> H.wmes, handle |-> w]

add_wme(identifier, attribute, value) ==
    /\ pc = "idle"
    /\ Len(wmes) < MaxWmes
    /\ LET r == engine_add_wme(working_memory, network, wmes,
                               identifier, attribute, value)
       IN  /\ working_memory' = r.wm
           /\ network' = r.net
           /\ wmes' = r.wmes
    /\ raised' = "none"
    /\ NewCall
    /\ UNCHANGED <<fixture, held_strategy, agenda, strategy, pc>>

\* am.items.remove(wme) for each am of wme.alpha_memories; list.remove raises
\* ValueError when no item == wme
RECURSIVE RemoveFromAlphaMemories(_, _, _, _)
RemoveFromAlphaMemories(net, ws, ams, w) ==
    IF ams = <<>> THEN [net |-> net, raised |-> "none"]
    ELSE LET i == IndexOfWme(ws, net.alpha_memories[Head(ams)].items, w)
         IN  IF i = 0 THEN [net |-> net, raised |-> "ValueError"]
             ELSE RemoveFromAlphaMemories(
                      [net EXCEPT !.alpha_memories[Head(ams)].items = RemoveAt(@, i)],
                      ws, Tail(ams), w)

\* InferenceEngine._remove_token: join_results is empty for every token
\* (nothing appends to it), so no memory loses an item
remove_token(net, token) == net

RECURSIVE RemoveTokens(_, _)
RemoveTokens(net, tokens) ==
    IF tokens = <<>> THEN net
    ELSE RemoveTokens(remove_token(net, Head(tokens)), Tail(tokens))

\* InferenceEngine.remove_wme on the engine state [wm, net]
engine_remove_wme(wm, net, ws, w) ==
    LET i == IndexOfWme(ws, wm, w)
    IN  IF i = 0 THEN [wm |-> wm, net |-> net, raised |-> "none"]
        ELSE LET r == RemoveFromAlphaMemories(net, ws, ws[w].alpha_memories, w)
             IN  IF r.raised # "none"
                 THEN [wm |-> RemoveAt(wm, i), net |-> r.net, raised |-> r.raised]
                 ELSE [wm |-> RemoveAt(wm, i),
                       net |-> RemoveTokens(r.net, ws[w].tokens),
                       raised |-> "none"]

remove_wme(w) ==
    /\ pc = "idle"
    /\ LET r == engine_remove_wme(working_memory, network, wmes, w)
       IN  /\ working_memory' = r.wm
           /\ network' = r.net
           /\ raised' = r.raised
    /\ NewCall
    /\ UNCHANGED <<fixture, held_strategy, wmes, agenda, strategy, pc>>

\* --------------------------------------------------- executing a rule
RECURSIVE BindWmes(_, _, _)
BindWmes(ws, path, bindings) ==
    IF path = <<>> THEN bindings
    ELSE LET wme == ws[Head(path)]
             b1 == IF wme.attribute = "name" THEN ("?name" :> wme.value) @@ bindings
                   ELSE IF wme.attribute = "age" THEN ("?age" :> wme.value) @@ bindings
                   ELSE IF wme.attribute = "min-age"
                        THEN ("?min_age" :> wme.value) @@ bindings
                        ELSE bindings
             b2 == IF wme.attribute \in {"name", "age"}
                   THEN ("?person" :> wme.identifier) @@ b1
                   ELSE b1
         IN  BindWmes(ws, Tail(path), b2)

\* Production._get_variable_bindings; is_none stands for the result None
get_variable_bindings(ws, token) ==
    LET bindings == BindWmes(ws, token, <<>>)
    IN  IF \E v \in {"?name", "?age", "?min_age"} : v \notin DOMAIN bindings
        THEN [is_none |-> TRUE, bindings |-> <<>>]
        ELSE [is_none |-> FALSE, bindings |-> bindings]

\* one action callback applied to (variable_bindings, engine); the engine
\* state is E = [wm, net, wmes, trace, raised].  The callback "record" only
\* notes its call; "assert" also calls engine.add_wme('legal', 'min-age', '21')
\* and "retract" calls engine.remove_wme on the first WME the caller got;
\* "fail" raises an exception of its own
InvokeAction(E, production, action, bindings) ==
    LET E1 == [E EXCEPT !.trace = Append(@, [production |-> production.name,
                                             action |-> action,
                                             bindings |-> bindings])]
    IN  IF action = "assert"
        THEN LET r == engine_add_wme(E1.wm, E1.net, E1.wmes, "legal", "min-age", "21")
             IN  [E1 EXCEPT !.wm = r.wm, !.net = r.net, !.wmes = r.wmes]
        ELSE IF action = "retract"
        THEN LET r == engine_remove_wme(E1.wm, E1.net, E1.wmes, 1)
             IN  [E1 EXCEPT !.wm = r.wm, !.net = r.net, !.raised = r.raised]
        ELSE IF action = "fail"
        THEN [E1 EXCEPT !.raised = "Exception"]
        ELSE E1

RECURSIVE InvokeActionsAll(_, _, _, _)
\* a loop over the actions that goes on after one of them has raised
InvokeActionsAll(E, production, actions, bindings) ==
    IF actions = <<>> THEN E
    ELSE InvokeActionsAll(InvokeAction(E, production, Head(actions), bindings),
                          production, Tail(actions), bindings)

RECURSIVE InvokeActions(_, _, _, _)
\* for action in self.actions: an exception ends the loop and leaves execute
InvokeActions(E, production, actions, bindings) ==
    IF actions = <<>> \/ E.raised # "none" THEN E
    ELSE InvokeActions(InvokeAction(E, production, Head(actions), bindings),
                       production, Tail(actions), bindings)

\* Production.execute
execute(E, production, token) ==
    LET variable_bindings == get_variable_bindings(E.wmes, token)
    IN  IF variable_bindings.is_none THEN E
        ELSE InvokeActions(E, production, production.actions,
                           variable_bindings.bindings)

\* ------------------------------------------------------- select
RECURSIVE Sum(_)
Sum(s) == IF s = <<>> THEN 0 ELSE Head(s) + Sum(Tail(s))

\* sum(f(x) for x in s)
SumSeq(s, f(_)) == Sum([i \in 1..Len(s) |-> f(s[i])])

\* sorted(agenda, key=key)[0]: sorted is stable, so the first item with the least key
FirstLeast(ag, key(_)) ==
    CHOOSE i \in 1..Len(ag) :
        /\ \A k \in 1..Len(ag) : key(ag[i]) <= key(ag[k])
        /\ \A k \in 1..(i - 1) : key(ag[k]) # key(ag[i])

\* sorted(agenda, key=key, reverse=True)[0]: equal keys keep their order
FirstGreatest(ag, key(_)) ==
    CHOOSE i \in 1..Len(ag) :
        /\ \A k \in 1..Len(ag) : key(ag[i]) >= key(ag[k])
        /\ \A k \in 1..(i - 1) : key(ag[k]) # key(ag[i])

\* a select that returns the last item of the agenda
default_select_last(st, ag) ==
    IF ag # <<>> THEN {[item |-> ag[Len(ag)], strategy |-> st]}
    ELSE {[item |-> NoItem, strategy |-> st]}

\* DefaultStrategy.select
default_select(st, ag) ==
    IF ag # <<>> THEN {[item |-> ag[1], strategy |-> st]}
    ELSE {[item |-> NoItem, strategy |-> st]}

\* the values id() can give the live WME objects: distinct, otherwise arbitrary
MaxId == MaxWmes + 1

Ids(n) == {f \in [1..n -> 1..MaxId] : \A a, b \in 1..n : a # b => f[a] # f[b]}

\* LEXStrategy.select
lex_select(st, ag, n) ==
    IF ag = <<>> THEN {[item |-> NoItem, strategy |-> st]}
    ELSE {[item |-> ag[FirstGreatest(ag, LAMBDA item : SumSeq(item[2], LAMBDA w : id[w]))],
           strategy |-> st] : id \in Ids(n)}

GoalDistance(production) ==
    IF "goal_distance" \in DOMAIN production THEN production.goal_distance
    ELSE Infinity

\* MEAStrategy.select
mea_select(st, ag, net) ==
    IF ag = <<>> THEN {[item |-> NoItem, strategy |-> st]}
    ELSE {[item |-> ag[FirstLeast(ag, LAMBDA item :
                                   GoalDistance(net.productions[item[1]].production))],
           strategy |-> st]}

RECURSIVE InitWeightsReset(_, _, _, _)
\* a first loop that gives every production of the agenda the initial weight
InitWeightsReset(rule_weights, initial_weight, ag, net) ==
    IF ag = <<>> THEN rule_weights
    ELSE LET name == net.productions[Head(ag)[1]].production.name
         IN  InitWeightsReset((name :> initial_weight) @@ rule_weights,
                              initial_weight, Tail(ag), net)

\* the first loop of GamblersBucketBrigade.select
RECURSIVE InitWeights(_, _, _, _)
InitWeights(rule_weights, initial_weight, ag, net) ==
    IF ag = <<>> THEN rule_weights
    ELSE LET name == net.productions[Head(ag)[1]].production.name
         IN  InitWeights(IF name \in DOMAIN rule_weights THEN rule_weights
                         ELSE (name :> initial_weight) @@ rule_weights,
                         initial_weight, Tail(ag), net)

\* GamblersBucketBrigade.select; random.random() * total_weight is drawn from
\* the multiples of a half weight unit in [0, total_weight)
gbb_select(st, ag, net) ==
    IF ag = <<>> THEN {[item |-> NoItem, strategy |-> st]}
    ELSE
    LET rw == InitWeights(st.rule_weights, st.initial_weight, ag, net)
        weight(item) == rw[net.productions[item[1]].production.name]
        total_weight == SumSeq(ag, weight)
        current(i) == SumSeq(SubSeq(ag, 1, i), weight)
        st1 == [st EXCEPT !.rule_weights = rw]
    IN  IF total_weight <= 0
        THEN {[item |-> ag[i], strategy |-> st1] : i \in 1..Len(ag)}
        ELSE {IF \E i \in 1..Len(ag) : 2 * current(i) >= sel2
              THEN LET i == CHOOSE i \in 1..Len(ag) :
                                /\ 2 * current(i) >= sel2
                                /\ \A k \in 1..(i - 1) : 2 * current(k) < sel2
                   IN  [item |-> ag[i],
                        strategy |-> [st1 EXCEPT !.last_fired_rule = ag[i][1]]]
              ELSE [item |-> ag[1],
                    strategy |-> [st1 EXCEPT !.last_fired_rule = ag[1][1]]]
              : sel2 \in 0..(2 * total_weight - 1)}

RECURSIVE ConflictSet(_, _)
ConflictSet(productions, p) ==
    IF p > Len(productions) THEN <<>>
    ELSE [i \in 1..Len(productions[p].items) |-> <<p, productions[p].items[i]>>]
         \o ConflictSet(productions, p + 1)

\* InferenceEngine._build_conflict_set
build_conflict_set(net) == ConflictSet(net.productions, 1)

\* strategy.select(agenda) for each class of strategy: the outcomes it can have
StrategySelect(st, ag, net, n) ==
    CASE st.kind = "Default" -> default_select(st, ag)
      [] st.kind = "LEX" -> lex_select(st, ag, n)
      [] st.kind = "MEA" -> mea_select(st, ag, net)
      [] st.kind = "GBB" -> gbb_select(st, ag, net)

\* a _select_production that hands the strategy the production nodes' current
\* items in place of self.agenda
select_production_rebuilt(st, ag, net, n) ==
    StrategySelect(st, build_conflict_set(net), net, n)

\* InferenceEngine._select_production: self.strategy.select(self.agenda)
select_production(st, ag, net, n) == StrategySelect(st, ag, net, n)

\* ------------------------------------------------------------ feedback
Max(a, b) == IF a >= b THEN a ELSE b

\* an adjustment that leaves the learning rate out
AdjustmentIgnoringRate(success_factor, learning_rate) == success_factor

\* success_factor * self.learning_rate: both factors are in tenths, and so is
\* the result; the scores and learning rates drawn below make the division
\* exact
Adjustment(success_factor, learning_rate) ==
    (success_factor * learning_rate) \div 10

\* a provide_feedback without the line that keeps the weight at 0.1 or more
gbb_provide_feedback_unclamped(st, fired_rule, success_factor) ==
    IF fired_rule.name \in DOMAIN st.rule_weights
    THEN [st EXCEPT !.rule_weights[fired_rule.name] =
                        @ + Adjustment(success_factor, st.learning_rate)]
    ELSE st

\* a provide_feedback that gives an unknown rule a weight of its own
gbb_provide_feedback_creating(st, fired_rule, success_factor) ==
    LET adjustment == Adjustment(success_factor, st.learning_rate)
        w0 == IF fired_rule.name \in DOMAIN st.rule_weights
              THEN st.rule_weights[fired_rule.name]
              ELSE st.initial_weight
    IN  [st EXCEPT !.rule_weights =
                       (fired_rule.name :> Max(1, w0 + adjustment)) @@ @]

\* GamblersBucketBrigade.provide_feedback
gbb_provide_feedback(st, fired_rule, success_factor) ==
    IF fired_rule.name \in DOMAIN st.rule_weights
    THEN LET adjustment == Adjustment(success_factor, st.learning_rate)
             w1 == st.rule_weights[fired_rule.name] + adjustment
         IN  [st EXCEPT !.rule_weights[fired_rule.name] = Max(1, w1)]
    ELSE st

\* strategy.provide_feedback for each class of strategy: only
\* GamblersBucketBrigade overrides the base class's pass
strategy_feedback(st, fired_rule, success_factor) ==
    IF st.kind = "GBB" THEN gbb_provide_feedback(st, fired_rule, success_factor)
    ELSE st

\* InferenceEngine.provide_feedback: hasattr(self.strategy, 'update_weights')
\* is the test, and self.strategy.update_weights the call
engine_feedback(st, fired_rule, success_factor) ==
    IF "update_weights" \in DOMAIN st THEN st.update_weights ELSE st

\* a swap in which the new strategy takes over the weights of the old one
set_strategy_carrying_weights(current, s) ==
    [strategy |-> IF "rule_weights" \in DOMAIN current /\ "rule_weights" \in DOMAIN s
                  THEN [s EXCEPT !.rule_weights = current.rule_weights]
                  ELSE s,
     previous |-> current]

\* InferenceEngine.set_conflict_resolution_strategy(s) on the engine's
\* strategy reference: the object the engine holds after the call, and the
\* object it held before, which the caller still has
set_strategy(current, s) == [strategy |-> s, previous |-> current]

\* the success factors and the constructor arguments the callers pass, in tenths
Scores == {-10, -8, 10}

LearningRates == {5, 10}

InitialWeights == {1, 10}

\* ------------------------------------------------- recognize-act cycle
\* InferenceEngine._build_conflict_set called by itself, as main() once did
BuildConflictSet ==
    /\ pc = "idle"
    /\ agenda' = build_conflict_set(network)
    /\ raised' = "none"
    /\ NewCall
    /\ UNCHANGED <<fixture, held_strategy, working_memory, wmes, network,
                   strategy, pc>>

\* InferenceEngine._select_production called by itself
SelectProduction ==
    /\ pc = "idle"
    /\ \E out \in select_production(strategy, agenda, network, Len(wmes)) :
          /\ selection' = out.item
          /\ strategy' = out.strategy
    /\ selected_from' = agenda
    /\ raised' = "none"
    /\ cycle' = 0
    /\ max_cycles' = 0
    /\ result' = -1
    /\ trace' = <<>>
    /\ executed' = <<>>
    /\ UNCHANGED <<fixture, held_strategy, working_memory, wmes, network,
                   agenda, pc>>

\* InferenceEngine.run up to the loop
run(n) ==
    /\ pc = "idle"
    /\ Len(wmes) <= MaxWmes
    /\ pc' = "loop"
    /\ cycle' = 0
    /\ max_cycles' = n
    /\ agenda' = build_conflict_set(network)
    /\ trace' = <<>>
    /\ executed' = <<>>
    /\ result' = -1
    /\ raised' = "none"
    /\ selection' = NoItem
    /\ selected_from' = <<>>
    /\ UNCHANGED <<fixture, held_strategy, working_memory, wmes, network,
                   strategy>>

\* a pass through the loop that keeps the agenda it was given
LoopBodyStale(out) ==
    IF out.item = NoItem
    THEN [wm |-> working_memory, net |-> network, wmes |-> wmes, trace |-> trace,
          raised |-> "none", agenda |-> agenda, cycle |-> cycle,
          executed |-> executed, returned |-> TRUE]
    ELSE LET E == execute([wm |-> working_memory, net |-> network, wmes |-> wmes,
                           trace |-> trace, raised |-> "none"],
                          network.productions[out.item[1]].production,
                          out.item[2])
         IN  IF E.raised # "none"
             THEN E @@ [agenda |-> agenda, cycle |-> cycle,
                        executed |-> Append(executed, out.item), returned |-> TRUE]
             ELSE E @@ [agenda |-> agenda, cycle |-> cycle + 1,
                        executed |-> Append(executed, out.item), returned |-> FALSE]

\* a pass through the loop with refraction: the token that was executed
\* leaves the items of its production node
LoopBodyRefracting(out) ==
    IF out.item = NoItem
    THEN [wm |-> working_memory, net |-> network, wmes |-> wmes, trace |-> trace,
          raised |-> "none", agenda |-> agenda, cycle |-> cycle,
          executed |-> executed, returned |-> TRUE]
    ELSE LET E == execute([wm |-> working_memory, net |-> network, wmes |-> wmes,
                           trace |-> trace, raised |-> "none"],
                          network.productions[out.item[1]].production,
                          out.item[2])
             i == CHOOSE k \in 1..Len(E.net.productions[out.item[1]].items) :
                      E.net.productions[out.item[1]].items[k] = out.item[2]
             R == [E EXCEPT !.net.productions[out.item[1]].items = RemoveAt(@, i)]
         IN  IF E.raised # "none"
             THEN E @@ [agenda |-> agenda, cycle |-> cycle,
                        executed |-> Append(executed, out.item), returned |-> TRUE]
             ELSE R @@ [agenda |-> build_conflict_set(R.net), cycle |-> cycle + 1,
                        executed |-> Append(executed, out.item), returned |-> FALSE]

\* the engine state after one pass through the body of run's loop, given
\* what select returned: `returned` says that the pass ended in a break or
\* in an exception that an action raised, which run lets through
LoopBody(out) ==
    IF out.item = NoItem
    THEN [wm |-> working_memory, net |-> network, wmes |-> wmes, trace |-> trace,
          raised |-> "none", agenda |-> agenda, cycle |-> cycle,
          executed |-> executed, returned |-> TRUE]
    ELSE LET E == execute([wm |-> working_memory, net |-> network, wmes |-> wmes,
                           trace |-> trace, raised |-> "none"],
                          network.productions[out.item[1]].production,
                          out.item[2])
         IN  IF E.raised # "none"
             THEN E @@ [agenda |-> agenda, cycle |-> cycle,
                        executed |-> Append(executed, out.item), returned |-> TRUE]
             ELSE E @@ [agenda |-> build_conflict_set(E.net), cycle |-> cycle + 1,
                        executed |-> Append(executed, out.item), returned |-> FALSE]

\* a loop that runs one cycle more: while cycle <= max_cycles
WhileConditionInclusive(c, n) == c <= n

\* the condition of run's loop: while cycle < max_cycles
WhileCondition(c, n) == c < n

\* one iteration of the loop of run that reaches select
run_cycle ==
    /\ pc = "loop"
    /\ WhileCondition(cycle, max_cycles)
    /\ agenda # <<>>
    /\ \E out \in select_production(strategy, agenda, network, Len(wmes)) :
          /\ selection' = out.item
          /\ strategy' = out.strategy
          /\ LET B == LoopBody(out)
             IN  /\ working_memory' = B.wm
                 /\ network' = B.net
                 /\ wmes' = B.wmes
                 /\ trace' = B.trace
                 /\ raised' = B.raised
                 /\ agenda' = B.agenda
                 /\ cycle' = B.cycle
                 /\ executed' = B.executed
                 /\ pc' = IF B.returned THEN "idle" ELSE "loop"
                 /\ result' = IF B.returned /\ B.raised = "none" THEN cycle ELSE result
    /\ selected_from' = agenda
    /\ UNCHANGED <<fixture, held_strategy, max_cycles>>

\* a loop that an empty agenda does not end
LoopEndsOnBound == ~WhileCondition(cycle, max_cycles)

\* the loop of run ends because the while condition fails or the agenda is empty
LoopEnds == ~WhileCondition(cycle, max_cycles) \/ agenda = <<>>

run_return ==
    /\ pc = "loop"
    /\ LoopEnds
    /\ pc' = "idle"
    /\ result' = cycle
    /\ UNCHANGED <<fixture, held_strategy, working_memory, wmes, network,
                   agenda, strategy,
                   selection, selected_from, cycle, max_cycles, trace, executed,
                   raised>>

\* provide_feedback called on the strategy object
strategy_provide_feedback(fired_rule, success_factor) ==
    /\ pc = "idle"
    /\ LET st == strategy_feedback(strategy, fired_rule, success_factor)
       IN  /\ st.kind = "GBB" =>
                 \A name \in DOMAIN st.rule_weights : st.rule_weights[name] <= MaxWeight
           /\ strategy' = st
    /\ raised' = "none"
    /\ NewCall
    /\ UNCHANGED <<fixture, held_strategy, working_memory, wmes, network,
                   agenda, pc>>

\* InferenceEngine.provide_feedback
engine_provide_feedback(fired_rule, success_factor) ==
    /\ pc = "idle"
    /\ strategy' = engine_feedback(strategy, fired_rule, success_factor)
    /\ raised' = "none"
    /\ NewCall
    /\ UNCHANGED <<fixture, held_strategy, working_memory, wmes, network,
                   agenda, pc>>

\* InferenceEngine.set_conflict_resolution_strategy, called with the strategy
\* object the caller holds; the caller keeps the object the engine had
set_conflict_resolution_strategy ==
    /\ pc = "idle"
    /\ LET r == set_strategy(strategy, held_strategy)
       IN  /\ strategy' = r.strategy
           /\ held_strategy' = r.previous
    /\ raised' = "none"
    /\ NewCall
    /\ UNCHANGED <<fixture, working_memory, wmes, network, agenda, pc>>

Next ==
    \/ \E production \in Rules(fixture) : add_production(production)
    \/ \E f \in Facts(fixture) : add_wme(f[1], f[2], f[3])
    \/ \E w \in 1..Len(wmes) : remove_wme(w)
    \/ \E n \in -1..MaxCycles : run(n)
    \/ run_cycle
    \/ run_return

\* the engine as InferenceEngine() builds it, driven through its public calls
Spec == Init /\ [][Next]_vars

\* run is single-threaded and runs to completion: its loop is never
\* abandoned between two iterations
SpecFair == Spec /\ WF_vars(run_cycle) /\ WF_vars(run_return)

NextStrategy ==
    \/ \E production \in Rules(fixture) : add_production(production)
    \/ \E f \in Facts(fixture) : add_wme(f[1], f[2], f[3])
    \/ BuildConflictSet
    \/ SelectProduction
    \/ \E n \in -1..MaxCycles : run(n)
    \/ run_cycle
    \/ run_return

\* an engine built with each strategy; the conflict set and the selection are
\* also driven directly, as the example of retecore.py does
SpecStrategy == InitStrategy /\ [][NextStrategy]_vars

\* InferenceEngine() for the callers that exercise the network's structure
InitNetwork == \E fx \in {"S5", "S6"} : NewEngine(fx, DefaultStrategy)

\* the engine driven through its public calls, with rules whose variables and
\* constants sit in every field
SpecNetwork == InitNetwork /\ [][Next]_vars

\* InferenceEngine(GamblersBucketBrigade()) for a rule whose actions assert
\* and retract
InitFresh == NewEngine("S7", GamblersBucketBrigade(1, 10))

NextFresh ==
    \/ \E production \in Rules(fixture) : add_production(production)
    \/ \E f \in Facts(fixture) : add_wme(f[1], f[2], f[3])
    \/ \E n \in -1..MaxCycles : run(n)
    \/ run_cycle
    \/ run_return

\* runs whose actions change working memory between two selections
SpecFresh == InitFresh /\ [][NextFresh]_vars

\* InferenceEngine(GamblersBucketBrigade(learning_rate, initial_weight))
InitFeedback ==
    \E lr \in LearningRates : \E iw \in InitialWeights :
        NewEngine("S8", GamblersBucketBrigade(lr, iw))

NextFeedback ==
    \/ \E production \in Rules(fixture) : add_production(production)
    \/ \E f \in Facts(fixture) : add_wme(f[1], f[2], f[3])
    \/ BuildConflictSet
    \/ SelectProduction
    \/ \E production \in Rules(fixture) : \E s \in Scores :
          strategy_provide_feedback(production, s)
    \/ \E production \in Rules(fixture) : \E s \in Scores :
          engine_provide_feedback(production, s)

\* InferenceEngine(GamblersBucketBrigade()) for a rule with an action that
\* raises
InitAbort == NewEngine("S9", GamblersBucketBrigade(1, 10))

\* runs in which an action raises after another has asserted a fact
SpecAbort == InitAbort /\ [][NextFresh]_vars

\* an engine with a learning strategy: selections interleaved with feedback
\* given to the strategy and to the engine
SpecFeedback == InitFeedback /\ [][NextFeedback]_vars

\* InferenceEngine(GamblersBucketBrigade(0.5, 0.0)): the weights a select
\* initialises sum to zero
InitUniform == NewEngine("S8", GamblersBucketBrigade(5, 0))

\* an engine whose learning strategy starts from the weight zero
SpecUniform == InitUniform /\ [][NextFeedback]_vars

\* InferenceEngine(GamblersBucketBrigade(0.5, 1.0)) and a caller that holds a
\* GamblersBucketBrigade(1.0, 0.1), or one of the two and a DefaultStrategy()
InitSwap ==
    \E pair \in {<<GamblersBucketBrigade(5, 10), GamblersBucketBrigade(10, 1)>>,
                  <<DefaultStrategy, GamblersBucketBrigade(5, 10)>>} :
        EngineState("S8", pair[1]) /\ held_strategy = pair[2]

NextSwap ==
    \/ \E production \in Rules(fixture) : add_production(production)
    \/ \E f \in Facts(fixture) : add_wme(f[1], f[2], f[3])
    \/ set_conflict_resolution_strategy
    \/ \E production \in Rules(fixture) : strategy_provide_feedback(production, 10)
    \/ \E n \in 1..MaxCycles : run(n)
    \/ run_cycle
    \/ run_return

\* two strategy objects that the caller installs in turn, between runs and
\* feedback
SpecSwap == InitSwap /\ [][NextSwap]_vars

\* ---------------------------------------------------------------- claims
FieldNames == {"identifier", "attribute", "value"}

Triple(ws, w) == <<ws[w].identifier, ws[w].attribute, ws[w].value>>

TriplePath(ws, path) == [i \in 1..Len(path) |-> Triple(ws, path[i])]

InWorkingMemory(w) == IndexOfWme(wmes, working_memory, w) # 0

\* the WME equals the constants of the condition
ConstantsHold(c, w) == \A f \in FieldNames : IsVar(c[f]) \/ c[f] = wmes[w][f]

\* all occurrences of one variable are bound to one value
ConsistentBinding(cs, path) ==
    \A i, j \in 1..Len(cs) : \A f, g \in FieldNames :
        (IsVar(cs[i][f]) /\ cs[i][f] = cs[j][g]) => wmes[path[i]][f] = wmes[path[j]][g]

\* path is a complete match of the conditions cs over working memory
IsMatch(cs, path) ==
    /\ Len(path) = Len(cs)
    /\ \A i \in 1..Len(path) : InWorkingMemory(path[i]) /\ ConstantsHold(cs[i], path[i])
    /\ ConsistentBinding(cs, path)

\* C1: every token of every production node is a complete match: one WME of
\* working memory per condition, in condition order, equal to the
\* condition's constants, under one consistent variable binding.
C1_MatchSoundness ==
    \A p \in 1..Len(network.productions) :
        \A k \in 1..Len(network.productions[p].items) :
            IsMatch(network.productions[p].production.conditions,
                    network.productions[p].items[k])

\* C2: for every production and every complete match over working memory the
\* production node holds exactly one token with that path.
C2_MatchCompleteness ==
    \A p \in 1..Len(network.productions) :
        LET cs == network.productions[p].production.conditions
            items == network.productions[p].items
            wm == {working_memory[i] : i \in 1..Len(working_memory)}
        IN  \A a \in [1..Len(cs) -> wm] :
                IsMatch(cs, a) =>
                    Cardinality({k \in 1..Len(items) :
                        TriplePath(wmes, items[k]) = TriplePath(wmes, a)}) = 1

NoAlphaMemoryHolds(w) ==
    \A m \in 1..Len(network.alpha_memories) :
        ~Contains(network.alpha_memories[m].items, w)

NoTokenHolds(w) ==
    /\ \A b \in 1..Len(network.betas) :
          \A k \in 1..Len(network.betas[b].items) :
              ~Contains(network.betas[b].items[k], w)
    /\ \A p \in 1..Len(network.productions) :
          \A k \in 1..Len(network.productions[p].items) :
              ~Contains(network.productions[p].items[k], w)

\* C3: after remove_wme(w) of a WME that is in working memory, w is in no
\* alpha memory and on the path of no token of a beta memory or production
\* node.
C3_RetractionTeardown ==
    [][\A w \in 1..Len(wmes) :
          (remove_wme(w) /\ InWorkingMemory(w)) =>
              (NoAlphaMemoryHolds(w) /\ NoTokenHolds(w))']_vars

\* the items of every alpha memory, beta memory and production node
MemoryItems(net) ==
    <<[m \in 1..Len(net.alpha_memories) |-> net.alpha_memories[m].items],
      [b \in 1..Len(net.betas) |-> net.betas[b].items],
      [p \in 1..Len(net.productions) |-> net.productions[p].items]>>

\* the engine after w = add_wme(f) followed by remove_wme(w)
AddThenRemove(f) ==
    LET a == engine_add_wme(working_memory, network, wmes, f[1], f[2], f[3])
    IN  engine_remove_wme(a.wm, a.net, a.wmes, a.handle)

\* C4: from any reachable state, add_wme(x) followed by remove_wme of its
\* handle leaves the items of all memories and production nodes as they were.
C4_RetractionInverse ==
    pc = "idle" =>
        \A f \in Facts(fixture) : MemoryItems(AddThenRemove(f).net) = MemoryItems(network)

\* the engine after add_wme(f) and then add_wme(g)
AddTwo(f, g) ==
    LET a == engine_add_wme(working_memory, network, wmes, f[1], f[2], f[3])
    IN  engine_add_wme(a.wm, a.net, a.wmes, g[1], g[2], g[3])

\* the set of token paths of production node p, as triples
MatchSet(E, p) ==
    {TriplePath(E.wmes, E.net.productions[p].items[k]) :
        k \in 1..Len(E.net.productions[p].items)}

\* C5: with the productions fixed and nothing asserted yet, asserting two
\* facts in either order gives every production node the same set of paths.
C5_OrderInvariance ==
    (pc = "idle" /\ wmes = <<>>) =>
        \A f, g \in Facts(fixture) :
            \A p \in 1..Len(network.productions) :
                MatchSet(AddTwo(f, g), p) = MatchSet(AddTwo(g, f), p)

\* the rules were added first and then each fact of the fixture asserted once
ScenarioAsserted ==
    /\ Len(network.productions) = 1
    /\ Len(working_memory) = Len(wmes)
    /\ {Triple(wmes, w) : w \in 1..Len(wmes)} = Facts(fixture)
    /\ Len(wmes) = Cardinality(Facts(fixture))
    /\ \A w \in 1..Len(wmes) : wmes[w].alpha_memories # <<>>

RunReturned == pc = "idle" /\ result # -1

\* C6: S1: with the three-condition rule and its three facts, run invokes
\* the action once, with the bindings of the one match, and returns 1.
C6_SingleMatchFiresOnce ==
    (fixture = "S1" /\ ScenarioAsserted /\ RunReturned /\ max_cycles = MaxCycles) =>
        /\ result = 1
        /\ Len(trace) = 1
        /\ LET b == trace[1].bindings
           IN  <<b["?name"], b["?age"], b["?min_age"]>> = <<"Alice", "25", "18">>

\* the (?x, ?z) pair an action was given
PairXZ(b) ==
    IF "?x" \in DOMAIN b /\ "?z" \in DOMAIN b THEN <<b["?x"], b["?z"]>>
    ELSE <<"unbound", "unbound">>

\* C7: S2: with rule [(?x parent ?y), (?y parent ?z)] and the facts a-b, b-c,
\* b-d, the pairs passed to the action during run are exactly (a,c) and (a,d).
C7_JoinOnSharedVariable ==
    (fixture = "S2" /\ ScenarioAsserted /\ RunReturned /\ max_cycles = MaxCycles) =>
        {PairXZ(trace[i].bindings) : i \in 1..Len(trace)} = {<<"a", "c">>, <<"a", "d">>}

\* C8: add_wme of a triple equal to one in working memory adds nothing to
\* any alpha memory, beta memory or production node; an alpha memory holds
\* at most one WME per triple, and the production node of a single-condition
\* rule holds exactly one token for a triple of its alpha memory.
C8_DuplicateAssertionIdempotent ==
    pc = "idle" =>
        /\ \A f \in Facts(fixture) :
              (\E i \in 1..Len(working_memory) : Triple(wmes, working_memory[i]) = f) =>
                  MemoryItems(engine_add_wme(working_memory, network, wmes,
                                             f[1], f[2], f[3]).net)
                      = MemoryItems(network)
        /\ \A m \in 1..Len(network.alpha_memories) :
              \A i, k \in 1..Len(network.alpha_memories[m].items) :
                  i # k => ~WmeEq(wmes[network.alpha_memories[m].items[i]],
                                  wmes[network.alpha_memories[m].items[k]])
        /\ \A p \in 1..Len(network.productions) :
              LET cs == network.productions[p].production.conditions
                  items == network.productions[p].items
                  am == MemoryAt(network, get_alpha_tests(cs[1]))
              IN  Len(cs) = 1 =>
                      \A i \in 1..Len(network.alpha_memories[am].items) :
                          Cardinality({k \in 1..Len(items) :
                              \E n \in 1..Len(items[k]) :
                                  WmeEq(wmes[items[k][n]],
                                        wmes[network.alpha_memories[am].items[i]])}) = 1

\* C9: run returns r with 0 <= r <= max_cycles, r being the number of
\* select-and-execute iterations made; it returns below max_cycles only when
\* the agenda is empty or select returned None; and run always returns.
C9_RunBoundedTermination ==
    /\ [](RunReturned =>
            /\ 0 <= result
            /\ result <= max_cycles
            /\ result = Len(executed)
            /\ (result < max_cycles => (agenda = <<>> \/ selection = NoItem)))
    /\ ((pc = "loop") ~> (pc = "idle"))

\* C9, amended: run always returns; it returns r >= 0, r being the number of
\* select-and-execute iterations made; r <= max_cycles when max_cycles >= 0,
\* and r = 0 with no iteration when max_cycles is negative; it returns below
\* max_cycles only when the agenda is empty or select returned None.
C9_RunBoundedForNonNegative ==
    /\ [](RunReturned =>
            /\ 0 <= result
            /\ (max_cycles >= 0 => result <= max_cycles)
            /\ (max_cycles < 0 => result = 0)
            /\ result = Len(executed)
            /\ (result < max_cycles => (agenda = <<>> \/ selection = NoItem)))
    /\ ((pc = "loop") ~> (pc = "idle"))

\* a run that executed every cycle it was allowed has returned
C9_Witness == RunReturned /\ result >= 1 /\ result = max_cycles /\ Len(executed) = result

\* C10: select returns None on the empty agenda and otherwise an element of
\* the agenda it was given; the item run executes is the one selected from
\* the agenda built before.
C10_StrategyContract ==
    /\ selected_from = <<>> => selection = NoItem
    /\ selected_from # <<>> => Contains(selected_from, selection)
    /\ executed # <<>> =>
          /\ executed[Len(executed)] = selection
          /\ Contains(selected_from, selection)

\* run executed an item that is not the head of a longer agenda
C10_Witness ==
    /\ executed # <<>>
    /\ Len(selected_from) >= 2
    /\ selection # selected_from[1]
    /\ executed[Len(executed)] = selection

\* C11: with initial_weight >= 0.1 and no set_rule_weights, every weight of
\* a GamblersBucketBrigade is >= 0.1 after any interleaving of select and
\* provide_feedback.
C11_WeightPositivity ==
    (strategy.kind = "GBB" /\ strategy.initial_weight >= 1) =>
        \A name \in DOMAIN strategy.rule_weights : strategy.rule_weights[name] >= 1

\* a weight that began at 1.0 has been brought down to the floor by feedback
C11_Witness ==
    /\ strategy.kind = "GBB"
    /\ strategy.initial_weight = 10
    /\ \E name \in DOMAIN strategy.rule_weights : strategy.rule_weights[name] = 1

\* the weights after feedback(a, +1.0) and then feedback(b, -0.8)
ExampleFeedback(st, a, b) ==
    gbb_provide_feedback(gbb_provide_feedback(st, a, 10), b, -8).rule_weights

\* C12: provide_feedback(p, s) on a production that has a weight w sets the
\* weight to max(0.1, w + s * learning_rate) and leaves every other weight;
\* from weights 1.0 and learning rate 0.5, feedback(A, +1.0) then
\* feedback(B, -0.8) gives A 1.5 and B 0.6.
C12_FeedbackUpdateRule ==
    strategy.kind = "GBB" =>
        LET w == strategy.rule_weights
        IN  /\ \A p \in Rules(fixture) : \A s \in Scores :
                  p.name \in DOMAIN w =>
                      LET w2 == gbb_provide_feedback(strategy, p, s).rule_weights
                          sum == (10 * w[p.name] + s * strategy.learning_rate)
                      IN  /\ DOMAIN w2 = DOMAIN w
                          /\ 10 * w2[p.name] = (IF sum >= 10 THEN sum ELSE 10)
                          /\ \A name \in DOMAIN w : name # p.name => w2[name] = w[name]
            /\ (strategy.learning_rate = 5 /\ DOMAIN w = {"P1", "P2"}
                    /\ w["P1"] = 10 /\ w["P2"] = 10) =>
                  /\ ExampleFeedback(strategy, RuleP1, RuleP2)["P1"] = 15
                  /\ ExampleFeedback(strategy, RuleP1, RuleP2)["P2"] = 6

\* the strategy of the example after its two calls of provide_feedback
C12_Witness ==
    /\ strategy.kind = "GBB"
    /\ strategy.learning_rate = 5
    /\ strategy.initial_weight = 10
    /\ DOMAIN strategy.rule_weights = {"P1", "P2"}
    /\ strategy.rule_weights["P1"] = 15
    /\ strategy.rule_weights["P2"] = 6

\* C13: with a GamblersBucketBrigade as the strategy,
\* InferenceEngine.provide_feedback(p, s) changes rule_weights as the
\* strategy's own provide_feedback(p, s) does.
C13_EngineFeedbackPassthrough ==
    strategy.kind = "GBB" =>
        \A p \in Rules(fixture) : \A s \in Scores :
            engine_feedback(strategy, p, s).rule_weights
                = gbb_provide_feedback(strategy, p, s).rule_weights

\* the variables of the conditions cs
Variables(cs) ==
    {cs[i][f] : i \in 1..Len(cs), f \in FieldNames} \cap VarNames

\* each variable of cs mapped to the field of the WME at a position where it
\* occurs
ExpectedBindings(cs, path) ==
    [v \in Variables(cs) |->
        LET pos == CHOOSE pos \in (1..Len(cs)) \X FieldNames : cs[pos[1]][pos[2]] = v
        IN  wmes[path[pos[1]]][pos[2]]]

\* C14: for every production and every complete-match token, the bindings
\* given to the actions map each variable of the conditions to the field of
\* the WME at its position, and have no other key.
C14_BindingExtraction ==
    \A p \in 1..Len(network.productions) :
        \A k \in 1..Len(network.productions[p].items) :
            LET cs == network.productions[p].production.conditions
                token == network.productions[p].items[k]
                b == get_variable_bindings(wmes, token)
            IN  IsMatch(cs, token) =>
                    /\ ~b.is_none
                    /\ b.bindings = ExpectedBindings(cs, token)

\* C15: on every token of a production node, a variable that occurs at two
\* positions of the production has equal WME fields at both positions.
C15_BindingConsistency ==
    \A p \in 1..Len(network.productions) :
        \A k \in 1..Len(network.productions[p].items) :
            LET cs == network.productions[p].production.conditions
                path == network.productions[p].items[k]
                n == IF Len(path) <= Len(cs) THEN Len(path) ELSE Len(cs)
            IN  \A i, j \in 1..n : \A f, g \in FieldNames :
                    (IsVar(cs[i][f]) /\ cs[i][f] = cs[j][g]) =>
                        wmes[path[i]][f] = wmes[path[j]][g]

RECURSIVE AssertAll(_, _)
\* add_wme of each triple of the list, in order
AssertAll(E, triples) ==
    IF triples = <<>> THEN E
    ELSE AssertAll(engine_add_wme(E.wm, E.net, E.wmes,
                                  Head(triples)[1], Head(triples)[2], Head(triples)[3]),
                   Tail(triples))

\* the engine after add_production(production) now, the facts being asserted
LateAdded(production) ==
    [wm |-> working_memory, wmes |-> wmes,
     net |-> network_add_production(network, wmes, production)]

\* a new engine after add_production(production) and then the facts of
\* working memory asserted in their order
AddedFirst(production) ==
    AssertAll([wm |-> <<>>, wmes |-> <<>>,
               net |-> network_add_production(ReteNetwork, <<>>, production)],
              TriplePath(wmes, working_memory))

\* the token paths of production node p that have one WME per condition
CompleteMatches(E, p) ==
    {t \in MatchSet(E, p) : Len(t) = Len(E.net.productions[p].production.conditions)}

\* C16: a production added after the facts holds the same complete matches
\* as it holds when it is added first and the facts are asserted afterwards.
C16_LateAddedProduction ==
    (pc = "idle" /\ network.productions = <<>>) =>
        \A production \in Rules(fixture) :
            CompleteMatches(LateAdded(production), 1)
                = CompleteMatches(AddedFirst(production), 1)

\* the WME of triple f passes every (field, constant) test of the list
SatisfiesTests(f, tests) ==
    \A k \in 1..Len(tests) : WME(f[1], f[2], f[3])[tests[k][1]] = tests[k][2]

RECURSIVE Up(_, _, _)
\* the beta memory reached from beta memory b through `steps` join nodes
Up(net, b, steps) ==
    IF steps = 0 THEN b
    ELSE Up(net, net.joins[net.betas[b].parent].parent, steps - 1)

\* the beta memory build_or_share_beta_memory returned for condition i of the
\* production of node p, and the join node above it
BetaFor(net, p, i) ==
    Up(net, net.productions[p].parent,
       Len(net.productions[p].production.conditions) - i)

JoinFor(net, p, i) == net.betas[BetaFor(net, p, i)].parent

AlphaFor(net, p, i) == net.joins[JoinFor(net, p, i)].alpha_memory

\* the constants of a condition, field by field
ConstantFields(c) == [f \in FieldNames |-> IF IsVar(c[f]) THEN "?" ELSE c[f]]

\* the first k conditions of cs1 and cs2 have the same constants and the
\* same pattern of repeated variables
SamePrefix(cs1, cs2, k) ==
    /\ \A i \in 1..k : ConstantFields(cs1[i]) = ConstantFields(cs2[i])
    /\ \A i, j \in 1..k : \A f, g \in FieldNames :
          (IsVar(cs1[i][f]) /\ cs1[i][f] = cs1[j][g])
              <=> (IsVar(cs2[i][f]) /\ cs2[i][f] = cs2[j][g])

\* C18: two productions whose first k conditions have the same constant
\* tests and the same variable structure have the same join nodes and beta
\* memories for those k conditions.
C18_JoinBetaSharing ==
    \A p, q \in 1..Len(network.productions) :
        LET cs1 == network.productions[p].production.conditions
            cs2 == network.productions[q].production.conditions
        IN  \A k \in 1..Len(cs1) :
                (k <= Len(cs2) /\ SamePrefix(cs1, cs2, k)) =>
                    \A i \in 1..k :
                        /\ BetaFor(network, p, i) = BetaFor(network, q, i)
                        /\ JoinFor(network, p, i) = JoinFor(network, q, i)

\* C19: two conditions of the productions added so far have the same alpha
\* memory if and only if their constant fields are equal, whatever their
\* variables are named.
C19_AlphaMemorySharing ==
    \A p, q \in 1..Len(network.productions) :
        LET cs1 == network.productions[p].production.conditions
            cs2 == network.productions[q].production.conditions
        IN  \A i \in 1..Len(cs1) : \A j \in 1..Len(cs2) :
                (ConstantFields(cs1[i]) = ConstantFields(cs2[j]))
                    <=> (AlphaFor(network, p, i) = AlphaFor(network, q, j))

\* two productions of two conditions each have been added and their four
\* conditions use two alpha memories
C19_Witness ==
    /\ Len(network.productions) = 2
    /\ Len(network.joins) = 4
    /\ Len(network.alpha_memories) = 2

\* the number of agenda items that come before those of production node p
Offset(p) == Sum([q \in 1..(p - 1) |-> Len(network.productions[q].items)])

\* C20: whenever run calls select, the agenda is the concatenation of the
\* current items of the production nodes, in the order the productions were
\* added and, for each node, the order its tokens were added.
C20_FreshAgenda ==
    pc = "loop" =>
        /\ Len(agenda) = Offset(Len(network.productions) + 1)
        /\ \A p \in 1..Len(network.productions) :
              \A k \in 1..Len(network.productions[p].items) :
                  agenda[Offset(p) + k] = <<p, network.productions[p].items[k]>>

\* inside run, after a cycle whose actions asserted a fact and retracted one,
\* the agenda holds a token that the agenda of the previous selection did not
\* hold
C20_Witness ==
    /\ pc = "loop"
    /\ cycle >= 1
    /\ Len(trace) >= 2
    /\ Len(working_memory) < Len(wmes)
    /\ Len(agenda) > Len(selected_from)

\* the names of the productions of the network are pairwise distinct
DistinctNames(net) ==
    \A p, q \in 1..Len(net.productions) :
        p # q => net.productions[p].production.name # net.productions[q].production.name

HasName(net, name) ==
    \E p \in 1..Len(net.productions) : net.productions[p].production.name = name

\* C21: add_production with the name of a production already in the engine
\* signals an error and leaves the alpha index, the alpha memories, the join
\* nodes, the beta memories and the production nodes unchanged, so the names
\* in network.productions stay pairwise distinct.
C21_DuplicateProductionName ==
    /\ [][\A production \in Rules(fixture) :
             (add_production(production) /\ HasName(network, production.name)) =>
                 (raised' # "none" /\ network' = network)]_vars
    /\ []DistinctNames(network)

\* C22: remove_wme of a WME that equals no WME of working memory raises
\* UnknownWME and leaves working memory and the items of every alpha memory,
\* beta memory and production node unchanged.
C22_UnknownWmeRetraction ==
    pc = "idle" =>
        \A w \in 1..Len(wmes) :
            ~InWorkingMemory(w) =>
                LET r == engine_remove_wme(working_memory, network, wmes, w)
                IN  /\ r.raised = "UnknownWME"
                    /\ r.wm = working_memory
                    /\ MemoryItems(r.net) = MemoryItems(network)

\* C23: when an action raises during a cycle of run, the actions after it
\* are not invoked, run makes no further select or cycle and returns nothing,
\* the exception reaches the caller, and what the actions before the failure
\* did to working memory and to the network stays.
C23_ActionFailureAborts ==
    [][(run_cycle /\ raised' # "none") =>
          LET production == network.productions[selection'[1]].production
              a == engine_add_wme(working_memory, network, wmes,
                                  "legal", "min-age", "21")
          IN  /\ production.actions = <<"assert", "fail", "record">>
              /\ pc' = "idle"
              /\ result' = -1
              /\ cycle' = cycle
              /\ Len(trace') = Len(trace) + 2
              /\ trace'[Len(trace') - 1].action = "assert"
              /\ trace'[Len(trace')].action = "fail"
              /\ working_memory' = a.wm
              /\ wmes' = a.wmes
              /\ network' = a.net]_vars

\* a run has been left by the exception of the second action, after the first
\* had asserted its fact
C23_Witness ==
    /\ pc = "idle"
    /\ raised = "Exception"
    /\ result = -1
    /\ Len(trace) = 2
    /\ Len(executed) = 1
    /\ \E i \in 1..Len(working_memory) :
          Triple(wmes, working_memory[i]) = <<"legal", "min-age", "21">>

NoActivation(net) ==
    \A p \in 1..Len(net.productions) : net.productions[p].items = <<>>

\* C24: run(n) called when every production node's items are empty returns
\* 0, invokes no action, raises nothing and leaves working memory and the
\* memories unchanged; in any run, from a cycle whose agenda is empty the
\* only step is the return of the cycles made so far.
C24_EmptyAgendaEndsRun ==
    /\ [][\A n \in -1..MaxCycles :
             (run(n) /\ NoActivation(network)) => (agenda' = <<>> /\ cycle' = 0)]_vars
    /\ [][(pc = "loop" /\ agenda = <<>>) =>
             /\ pc' = "idle"
             /\ result' = cycle
             /\ raised' = "none"
             /\ trace' = trace
             /\ executed' = executed
             /\ UNCHANGED <<working_memory, wmes, network>>]_vars
    /\ ((pc = "loop" /\ agenda = <<>> /\ cycle = 0)
            ~> (RunReturned /\ result = 0 /\ trace = <<>> /\ raised = "none"))

\* run(MaxCycles) has returned 0 on an engine that has a production and
\* facts, but no activation
C24_Witness ==
    /\ RunReturned
    /\ result = 0
    /\ max_cycles = MaxCycles
    /\ agenda = <<>>
    /\ NoActivation(network)
    /\ network.productions # <<>>
    /\ working_memory # <<>>

\* the earliest-added production node that holds a token
FirstActive(net) ==
    CHOOSE p \in 1..Len(net.productions) :
        /\ net.productions[p].items # <<>>
        /\ \A q \in 1..(p - 1) : net.productions[q].items = <<>>

\* C25: DefaultStrategy.select returns agenda[0] for every non-empty agenda,
\* and under the default strategy each cycle of run executes the first token
\* of the earliest-added production node that holds a token.
C25_DefaultPicksHead ==
    /\ [](agenda # <<>> =>
            \A out \in default_select(DefaultStrategy, agenda) : out.item = agenda[1])
    /\ [][(run_cycle /\ strategy.kind = "Default") =>
             /\ selection' = <<FirstActive(network),
                               network.productions[FirstActive(network)].items[1]>>
             /\ executed' = Append(executed, selection')]_vars

\* run has executed the head of an agenda that held tokens of two productions
C25_Witness ==
    /\ strategy.kind = "Default"
    /\ executed # <<>>
    /\ executed[Len(executed)] = selected_from[1]
    /\ selected_from[1][1] = 1
    /\ \E k \in 2..Len(selected_from) : selected_from[k][1] = 2

\* the names of the productions of the agenda
AgendaNames(ag, net) ==
    {net.productions[ag[i][1]].production.name : i \in 1..Len(ag)}

\* C26: after GamblersBucketBrigade.select on a non-empty agenda every
\* production name of the agenda has a weight; the entries that did not exist
\* are initial_weight and the entries that existed are as they were.
C26_WeightInitialisation ==
    (strategy.kind = "GBB" /\ agenda # <<>>) =>
        \A out \in gbb_select(strategy, agenda, network) :
            LET before == strategy.rule_weights
                after == out.strategy.rule_weights
            IN  /\ DOMAIN after = DOMAIN before \cup AgendaNames(agenda, network)
                /\ \A name \in DOMAIN after :
                      after[name] = IF name \in DOMAIN before THEN before[name]
                                    ELSE strategy.initial_weight

\* a select on an agenda of two productions has just returned: one weight is
\* what feedback made of it, the other is the initial weight
C26_Witness ==
    /\ strategy.kind = "GBB"
    /\ selection # NoItem
    /\ AgendaNames(selected_from, network) = {"P1", "P2"}
    /\ DOMAIN strategy.rule_weights = {"P1", "P2"}
    /\ strategy.rule_weights["P1"] # strategy.initial_weight
    /\ strategy.rule_weights["P2"] = strategy.initial_weight

\* C27: after every GamblersBucketBrigade.select that returns an item (p, t),
\* by the roulette wheel, by the uniform choice made when the total weight is
\* <= 0 or by the fallback, last_fired_rule is p.
C27_FiredRuleRecorded ==
    (strategy.kind = "GBB" /\ agenda # <<>>) =>
        \A out \in gbb_select(strategy, agenda, network) :
            out.item # NoItem => out.strategy.last_fired_rule = out.item[1]

\* token t is matched through more recently asserted WMEs than token s: WME
\* objects are numbered in the order of their add_wme
MoreRecent(t, s) ==
    /\ Len(t) = Len(s)
    /\ \A i \in 1..Len(t) : t[i] >= s[i]
    /\ \E i \in 1..Len(t) : t[i] > s[i]

\* C28: LEXStrategy.select returns an item of maximal recency: no item of the
\* agenda is matched through more recently asserted WMEs than the item
\* returned, and among the items with the WMEs of the item returned it is the
\* earliest of the agenda.
C28_RecencySelection ==
    (strategy.kind = "LEX" /\ agenda # <<>>) =>
        \A out \in lex_select(strategy, agenda, Len(wmes)) :
            /\ Contains(agenda, out.item)
            /\ \A k \in 1..Len(agenda) : ~MoreRecent(agenda[k][2], out.item[2])
            /\ \E k \in 1..Len(agenda) :
                  /\ agenda[k] = out.item
                  /\ \A i \in 1..(k - 1) : agenda[i][2] # out.item[2]

\* C29: set_conflict_resolution_strategy(s) changes the engine's strategy
\* reference only: the engine then holds s as it was, the previous strategy
\* object is as it was, and working memory, the network and the agenda are
\* unchanged; the selects of the following runs are made by s and leave the
\* previous object alone.
C29_StrategySwap ==
    /\ [][set_conflict_resolution_strategy =>
             /\ strategy' = held_strategy
             /\ held_strategy' = strategy
             /\ UNCHANGED <<working_memory, wmes, network, agenda>>]_vars
    /\ [][run_cycle =>
             /\ held_strategy' = held_strategy
             /\ \E out \in StrategySelect(strategy, agenda, network, Len(wmes)) :
                   /\ selection' = out.item
                   /\ strategy' = out.strategy]_vars

\* the strategy swapped in has made the selection of a run and has weights of
\* its own, and the strategy swapped out has kept weights that feedback changed
C29_Witness ==
    /\ strategy.kind = "GBB"
    /\ strategy.learning_rate = 10
    /\ held_strategy.kind = "GBB"
    /\ held_strategy.learning_rate = 5
    /\ executed # <<>>
    /\ Contains(selected_from, selection)
    /\ DOMAIN strategy.rule_weights # {}
    /\ \A name \in DOMAIN strategy.rule_weights : strategy.rule_weights[name] = 1
    /\ \E name \in DOMAIN held_strategy.rule_weights :
          held_strategy.rule_weights[name] = 15

FieldOrder == <<"identifier", "attribute", "value">>

RECURSIVE TestsAgainst(_, _, _, _)
\* the tests of field f of a condition, a variable v, against the fields g of
\* the earlier conditions from index i on, i ascending and then g
TestsAgainst(v, f, earlier_conditions, i) ==
    IF i >= Len(earlier_conditions) THEN <<>>
    ELSE [n \in 1..Len(SelectSeq(FieldOrder,
                                 LAMBDA g : earlier_conditions[i + 1][g] = v)) |->
             <<i, SelectSeq(FieldOrder,
                            LAMBDA g : earlier_conditions[i + 1][g] = v)[n], f>>]
         \o TestsAgainst(v, f, earlier_conditions, i + 1)

RECURSIVE ExpectedJoinTests(_, _, _)
\* the test vector of a condition: the fields f from position n on, in the
\* order identifier, attribute, value
ExpectedJoinTests(condition, earlier_conditions, n) ==
    IF n > Len(FieldOrder) THEN <<>>
    ELSE (IF IsVar(condition[FieldOrder[n]])
          THEN TestsAgainst(condition[FieldOrder[n]], FieldOrder[n],
                            earlier_conditions, 0)
          ELSE <<>>)
         \o ExpectedJoinTests(condition, earlier_conditions, n + 1)

\* C30: the join node of the k-th condition of a production has one test
\* (i, g, f) for every field f of the condition that is a variable and every
\* field g of an earlier condition i that is the same variable, f being the
\* outer loop, then i ascending, then g; no variable field is left without
\* its tests.
C30_JoinTestGeneration ==
    \A p \in 1..Len(network.productions) :
        LET cs == network.productions[p].production.conditions
        IN  \A k \in 1..Len(cs) :
                network.joins[JoinFor(network, p, k)].tests
                    = ExpectedJoinTests(cs[k], SubSeq(cs, 1, k - 1), 1)

\* C31: every token of the beta memory built for the k-th condition of a
\* production has a path of exactly k WMEs, and every token of a production
\* node has a path of as many WMEs as the production has conditions, for the
\* first production and for the later ones.
C31_TokenLengthEqualsDepth ==
    \A p \in 1..Len(network.productions) :
        LET cs == network.productions[p].production.conditions
        IN  /\ \A k \in 1..Len(cs) :
                  \A i \in 1..Len(network.betas[BetaFor(network, p, k)].items) :
                      Len(network.betas[BetaFor(network, p, k)].items[i]) = k
            /\ \A i \in 1..Len(network.productions[p].items) :
                  Len(network.productions[p].items[i]) = Len(cs)

\* C32: once a production has been added, the root beta memory holds exactly
\* one token, the empty match with the empty path, and no add_wme adds a
\* token to it.
C32_RootBetaSentinel ==
    /\ [](network.beta_root # None =>
            network.betas[network.beta_root].items = <<<<>>>>)
    /\ [][\A f \in Facts(fixture) :
             (add_wme(f[1], f[2], f[3]) /\ network.beta_root # None) =>
                 network.betas[network.beta_root].items'
                     = network.betas[network.beta_root].items]_vars

\* C33: in every cycle that run counts, each action of the selected
\* production is invoked exactly once, in the order of the actions list, with
\* the bindings taken from the selected token; no counted cycle skips them.
C33_EveryCycleRunsActions ==
    [][(run_cycle /\ cycle' = cycle + 1) =>
          LET production == network.productions[selection'[1]].production
              bindings == BindWmes(wmes, selection'[2], <<>>)
          IN  trace' = trace \o [i \in 1..Len(production.actions) |->
                                    [production |-> production.name,
                                     action |-> production.actions[i],
                                     bindings |-> bindings]]]_vars

\* every activation that the returned run executed is still a token of its
\* production node
ExecutedStay ==
    \A i \in 1..Len(executed) :
        Contains(network.productions[executed[i][1]].items, executed[i][2])

\* C34 as stated: there is no refraction, so a run(n) that starts with an
\* agenda that is not empty, with actions that leave working memory alone,
\* returns exactly n, and under DefaultStrategy every one of its n cycles
\* selects the same (production, token).
C34_NoRefraction ==
    (RunReturned /\ agenda # <<>> /\ strategy.kind = "Default") =>
        /\ ExecutedStay
        /\ result = max_cycles
        /\ Len(executed) = max_cycles
        /\ \A i \in 1..Len(executed) : executed[i] = agenda[1]

\* C34 for the n that count cycles: with n >= 0 run returns exactly n and
\* selects the head of the agenda n times; a negative n returns 0 and selects
\* nothing.
C34_NoRefractionForNonNegative ==
    (RunReturned /\ agenda # <<>> /\ strategy.kind = "Default") =>
        /\ ExecutedStay
        /\ result = Max(max_cycles, 0)
        /\ Len(executed) = result
        /\ \A i \in 1..Len(executed) : executed[i] = agenda[1]

C34_Witness ==
    /\ RunReturned
    /\ strategy.kind = "Default"
    /\ Len(agenda) >= 2
    /\ result = MaxCycles
    /\ Len(executed) = MaxCycles
    /\ \A i \in 1..Len(executed) : executed[i] = agenda[1]
    /\ ExecutedStay

\* the calls a caller makes after the productions are in: add_wme of a fact
\* of the fixture, or remove_wme of the k-th handle that add_wme returned
Calls(fx) ==
    {[op |-> "add_wme", fact |-> f, handle |-> 0] : f \in Facts(fx)}
        \cup {[op |-> "remove_wme", fact |-> <<>>, handle |-> k] : k \in 1..2}

CallSeqs(fx) ==
    UNION {[1..n -> Calls(fx)] : n \in 1..MaxWmes}

\* the engine state [wm, net, wmes, raised] after a sequence of calls; a
\* remove_wme of a handle not yet returned is left out, and a call that
\* raises ends the sequence
RECURSIVE ApplyCalls(_, _)
ApplyCalls(E, calls) ==
    IF calls = <<>> \/ E.raised # "none" THEN E
    ELSE LET c == Head(calls)
         IN  IF c.op = "add_wme"
             THEN LET r == engine_add_wme(E.wm, E.net, E.wmes,
                                          c.fact[1], c.fact[2], c.fact[3])
                  IN  ApplyCalls([wm |-> r.wm, net |-> r.net, wmes |-> r.wmes,
                                  raised |-> "none"], Tail(calls))
             ELSE IF c.handle > Len(E.wmes) THEN ApplyCalls(E, Tail(calls))
             ELSE LET r == engine_remove_wme(E.wm, E.net, E.wmes, c.handle)
                  IN  ApplyCalls([wm |-> r.wm, net |-> r.net, wmes |-> E.wmes,
                                  raised |-> r.raised], Tail(calls))

\* WME w passes the constant tests of an alpha memory
PassesTests(ws, w, tests) ==
    \A i \in 1..Len(tests) : ws[w][tests[i][1]] = tests[i][2]

\* working memory holds no triple twice, and each alpha memory holds the
\* triples of working memory that pass its tests
MemoriesAgree(E) ==
    /\ \A i, j \in 1..Len(E.wm) :
          i # j => Triple(E.wmes, E.wm[i]) # Triple(E.wmes, E.wm[j])
    /\ \A m \in 1..Len(E.net.alpha_memories) :
          {Triple(E.wmes, E.net.alpha_memories[m].items[i]) :
               i \in 1..Len(E.net.alpha_memories[m].items)}
            = {Triple(E.wmes, E.wm[i]) :
                   i \in {k \in 1..Len(E.wm) :
                             PassesTests(E.wmes, E.wm[k],
                                         E.net.alpha_memories[m].tests)}}

\* C35: after any sequence of add_wme and remove_wme calls made once the
\* productions are added, working memory holds no two equal WMEs and every
\* alpha memory holds exactly the triples of working memory that satisfy its
\* constant tests.
C35_MemoriesAgree ==
    (pc = "idle" /\ wmes = <<>> /\ network.productions # <<>>) =>
        \A calls \in CallSeqs(fixture) :
            LET E == ApplyCalls([wm |-> working_memory, net |-> network,
                                 wmes |-> wmes, raised |-> "none"], calls)
            IN  E.raised = "none" => MemoriesAgree(E)

\* C36: remove_wme(w) with a handle w that add_wme returned completes
\* without raising, and when it removes a working-memory entry, every alpha
\* memory that holds a WME equal to w loses it in the same call.
C36_RetractionNeverFailsMidway ==
    [][\A w \in 1..Len(wmes) :
          remove_wme(w) =>
              /\ raised' = "none"
              /\ Len(working_memory') < Len(working_memory) =>
                     \A m \in 1..Len(network.alpha_memories) :
                         IndexOfWme(wmes, network.alpha_memories[m].items, w) # 0 =>
                             Len(network.alpha_memories[m].items')
                                 = Len(network.alpha_memories[m].items) - 1]_vars

\* C37: GamblersBucketBrigade.provide_feedback(p, s) for a production whose
\* name has no entry in rule_weights leaves rule_weights as it was and creates
\* no entry, so a later select gives that production initial_weight, as if
\* the feedback had not been given.
C37_EarlyFeedbackDropped ==
    strategy.kind = "GBB" =>
        \A p \in Rules(fixture) : \A s \in Scores :
            p.name \notin DOMAIN strategy.rule_weights =>
                LET st == gbb_provide_feedback(strategy, p, s)
                IN  /\ st.rule_weights = strategy.rule_weights
                    /\ p.name \notin DOMAIN st.rule_weights
                    /\ gbb_select(st, agenda, network)
                           = gbb_select(strategy, agenda, network)
                    /\ p.name \in AgendaNames(agenda, network) =>
                           \A out \in gbb_select(st, agenda, network) :
                               out.strategy.rule_weights[p.name]
                                   = strategy.initial_weight

\* no select has been made yet and both productions are on the agenda:
\* feedback for either of them is dropped here, and the select that follows
\* gives both the initial weight
C37_Witness ==
    /\ strategy.kind = "GBB"
    /\ pc = "idle"
    /\ selection = NoItem
    /\ AgendaNames(agenda, network) = {"P1", "P2"}
    /\ DOMAIN strategy.rule_weights = {}
    /\ \A out \in gbb_select(gbb_provide_feedback(strategy, RuleP2, 10),
                              agenda, network) :
          out.strategy.rule_weights["P2"] = strategy.initial_weight

====
